---- MODULE Spec2Model ----
(***************************************************************************)
(* Model of the TAKNET-PS Beast proxy (src/beast-proxy): the per-connection *)
(* handler handle_client with its two forward_stream copy loops, the        *)
(* periodic stats_flusher, the SQLite wrapper db.py they write through, and *)
(* the signal-driven shutdown.  The proxy is a single asyncio event loop:   *)
(* code between two awaits runs atomically, so every action below is one    *)
(* such stretch of code.  The db.py calls are synchronous and may raise     *)
(* (sqlite3.OperationalError); a call that raises leaves the store as it    *)
(* was.                                                                      *)
(***************************************************************************)
EXTENDS Integers, Sequences, FiniteSets, TLC

\* ---------------------------------------------------------------- bounds
MaxSessions == 2      \* connections accepted during one run
MaxSends    == 1      \* payloads all clients together put on the wire
MaxFaults   == 1      \* store calls that raise during one run
MaxReplies  == 1      \* payloads the upstream puts on the wire (RelaySpec only)

\* ------------------------------------------------------ program constants
BEAST_ESCAPE == 26                       \* 0x1A
BEAST_TYPES  == {49, 50, 51, 52, 53}     \* 0x31 .. 0x35
BEAST_LONG_ModeSOnly == {51}

BEAST_LONG   == {51, 53}                 \* 0x33, 0x35
READ_SIZE    == 8192                     \* reader.read(8192)
MLAT_TAIL    == 200                      \* f.readlines()[-200:]

Sessions == 1..MaxSessions
IPs      == {"10.0.0.1", "10.0.0.2"}     \* peer addresses of the clients
\* The addresses are interchangeable, so the first connection is taken to
\* come from the first of them; later ones come from any.
PeerIPs(s) == IF s = 1 THEN {"10.0.0.1"} ELSE IPs
\* what one client write puts on the wire: a short frame, a long frame
Payloads == {<<26, 50>>, <<26, 51>>}

VARIABLES
  total_connections,   \* proxy.py global: connections accepted so far
  pc,                  \* per session: where handle_client stands
  fwd,                 \* per session: where the two forward_stream loops stand
  conn_info,           \* per session: the conn_info dict of handle_client
  active_connections,  \* proxy.py global registry (keys: id(writer))
  sock,                \* per session: state of writer / readsb_writer
  net,                 \* per session: bytes on the wire in both directions
  feeders,             \* store: table feeders (row id = index)
  connections,         \* store: table connections (row id = index)
  written,             \* per session: what update_feeder_stats was given for it
  flusher,             \* where the stats_flusher task stands
  shutdown,            \* shutdown_handler has cancelled all tasks
  hist                 \* per session: why teardown ran, open_connection calls made

proxy_vars == <<total_connections, pc, fwd, conn_info, active_connections, sock,
                net, feeders, connections, written, flusher, shutdown, hist>>

\* vpn_resolver.py: the module's configuration and globals, the monotonic
\* clock, and what the last call into the module returned
VARIABLES
  config,              \* the environment settings read at import (lines 13-24)
  netbird_peers,       \* _netbird_peers: address -> peer record
  netbird_cache_ts,    \* _netbird_cache_ts
  tailscale_peers,     \* _tailscale_peers: address -> peer record
  tailscale_cache_ts,  \* _tailscale_cache_ts
  clock,               \* time.monotonic(), in seconds
  ret                  \* the last call: its result and the refresh calls it made

resolver_vars == <<config, netbird_peers, netbird_cache_ts, tailscale_peers,
                   tailscale_cache_ts, clock, ret>>

\* count_beast_frames taken alone: the frames a buffer is made of, the buffer,
\* and what the function returned for it
VARIABLES
  frames,              \* the frames, each a type byte and an unescaped payload
  frame_data,          \* the buffer handed to count_beast_frames
  frame_counts,        \* its result <<msgs, positions>>
  frame_pos,           \* bytes of the buffer that forward_stream has read so far
  frame_reads          \* count_beast_frames' result for each read, in order

counter_vars == <<frames, frame_data, frame_counts, frame_pos, frame_reads>>

vars == <<proxy_vars, resolver_vars, counter_vars>>

Min(a, b) == IF a < b THEN a ELSE b

\* ------------------------------------------------------------ FrameCounter
RECURSIVE count_from_NoLiteral(_, _, _, _)
count_from_NoLiteral(data, i, msgs, positions) ==
  IF ~(i < Len(data)) THEN <<msgs, positions>>
  ELSE IF data[i] = BEAST_ESCAPE /\ data[i + 1] \in BEAST_TYPES
       THEN count_from_NoLiteral(data, i + 2, msgs + 1,
              IF data[i + 1] \in BEAST_LONG THEN positions + 1 ELSE positions)
       ELSE count_from_NoLiteral(data, i + 1, msgs, positions)

RECURSIVE count_from(_, _, _, _)
count_from(data, i, msgs, positions) ==
  \* i is the 1-based scan position; the loop runs while i < len(data)
  IF ~(i < Len(data)) THEN <<msgs, positions>>
  ELSE IF data[i] = BEAST_ESCAPE
       THEN IF data[i + 1] = BEAST_ESCAPE
            THEN count_from(data, i + 2, msgs, positions)
            ELSE IF data[i + 1] \in BEAST_TYPES
                 THEN count_from(data, i + 2, msgs + 1,
                        IF data[i + 1] \in BEAST_LONG THEN positions + 1 ELSE positions)
                 ELSE count_from(data, i + 1, msgs, positions)
       ELSE count_from(data, i + 1, msgs, positions)

count_beast_frames(data) == count_from(data, 1, 0, 0)

\* A well-formed frame on the wire: the escape byte, the type byte, and the
\* payload with every BEAST_ESCAPE in it doubled.
RECURSIVE Escaped(_)
Escaped(payload) ==
  IF payload = <<>> THEN <<>>
  ELSE (IF Head(payload) = BEAST_ESCAPE THEN <<BEAST_ESCAPE, BEAST_ESCAPE>>
        ELSE <<Head(payload)>>) \o Escaped(Tail(payload))

RECURSIVE Encode(_)
Encode(fs) ==
  IF fs = <<>> THEN <<>>
  ELSE <<BEAST_ESCAPE, Head(fs).type>> \o Escaped(Head(fs).payload) \o Encode(Tail(fs))

MaxFrames == 2
RawPayloads == {<<>>, <<0>>, <<26>>, <<26, 49>>, <<7, 26>>, <<51, 26, 26>>}
Frames == [type : BEAST_TYPES, payload : RawPayloads]

RECURSIVE FrameLists(_)
FrameLists(n) ==
  IF n = 0 THEN {<<>>}
  ELSE FrameLists(n - 1) \cup {<<f>> \o l : f \in Frames, l \in FrameLists(n - 1)}

NotCounted == <<-1, -1>>

CounterIdle ==
  /\ frames = <<>> /\ frame_data = <<>> /\ frame_counts = NotCounted
  /\ frame_pos = 0 /\ frame_reads = <<>>

\* a buffer of up to MaxFrames well-formed frames is about to be counted
CounterStart ==
  /\ frames \in FrameLists(MaxFrames)
  /\ frame_data = Encode(frames)
  /\ frame_counts = NotCounted
  /\ frame_pos = 0 /\ frame_reads = <<>>

\* forward_stream, line 74: msgs, positions = count_beast_frames(data)
CountFrames ==
  /\ frame_counts = NotCounted
  /\ frame_counts' = count_beast_frames(frame_data)
  /\ UNCHANGED <<frames, frame_data, frame_pos, frame_reads>>

\* The same function under forward_stream's reads of an arbitrary byte stream:
\* the bytes that matter to the scan are the escape byte, a short type, a long
\* type and any other byte.
MaxBuf == 4
Bytes == {7, 26, 50, 51}

RECURSIVE Buffers(_)
Buffers(n) ==
  IF n = 0 THEN {<<>>}
  ELSE Buffers(n - 1) \cup {<<b>> \o d : b \in Bytes, d \in Buffers(n - 1)}

\* a byte stream of up to MaxBuf bytes is about to arrive
ReadStart ==
  /\ frames = <<>>
  /\ frame_data \in Buffers(MaxBuf)
  /\ frame_counts = NotCounted
  /\ frame_pos = 0 /\ frame_reads = <<>>

\* forward_stream, lines 68-79: read() returns the next n bytes of the stream
\* (at least one, at most READ_SIZE, as many as the transport has received),
\* and the chunk is counted on its own.
ForwardRead(n) ==
  /\ n \in 1..Min(Len(frame_data) - frame_pos, READ_SIZE)
  /\ LET data == SubSeq(frame_data, frame_pos + 1, frame_pos + n)
     IN frame_reads' = Append(frame_reads, count_beast_frames(data))
  /\ frame_pos' = frame_pos + n
  /\ UNCHANGED <<frames, frame_data, frame_counts>>

\* ------------------------------------------------------------------ store
find_feeder(fs, ip) ==
  IF \E i \in DOMAIN fs : fs[i].ip_address = ip
  THEN CHOOSE i \in DOMAIN fs : fs[i].ip_address = ip
  ELSE 0

\* upsert_feeder returns the pair <<new table, feeder id>>
upsert_feeder(fs, ip) ==
  LET row == find_feeder(fs, ip) IN
  IF row # 0
  THEN <<[fs EXCEPT ![row].status = "active"], row>>
  ELSE <<Append(fs, [ip_address |-> ip, status |-> "active",
                     bytes_received |-> 0, messages_received |-> 0,
                     positions_received |-> 0, mlat_enabled |-> 0]),
         Len(fs) + 1>>

\* log_connection returns the pair <<new table, connection id>>
log_connection(cs, feeder_id, ip) ==
  <<Append(cs, [feeder_id |-> feeder_id, ip_address |-> ip,
                disconnects |-> 0, bytes_transferred |-> 0]),
    Len(cs) + 1>>

log_disconnection_NoBytes(fs, cs, feeder_id, connection_id, bytes_transferred) ==
  <<[fs EXCEPT ![feeder_id].status = "offline"],
    [cs EXCEPT ![connection_id].disconnects = @ + 1]>>

\* log_disconnection writes both tables: <<new feeders, new connections>>
log_disconnection(fs, cs, feeder_id, connection_id, bytes_transferred) ==
  <<[fs EXCEPT ![feeder_id].status = "offline"],
    [cs EXCEPT ![connection_id].disconnects = @ + 1,
               ![connection_id].bytes_transferred = bytes_transferred]>>

update_feeder_stats(fs, feeder_id, b, m, p) ==
  [fs EXCEPT ![feeder_id].bytes_received = @ + b,
             ![feeder_id].messages_received = @ + m,
             ![feeder_id].positions_received = @ + p,
             ![feeder_id].status = "active"]

touch_feeder_Noop(fs, feeder_id) == fs

touch_feeder(fs, feeder_id) == [fs EXCEPT ![feeder_id].status = "active"]

update_feeder_mlat_AlwaysOn(fs, feeder_id, mlat_enabled) ==
  [fs EXCEPT ![feeder_id].mlat_enabled = 1]

update_feeder_mlat(fs, feeder_id, mlat_enabled) ==
  [fs EXCEPT ![feeder_id].mlat_enabled = IF mlat_enabled THEN 1 ELSE 0]

mark_inactive_feeders_AnyStatus(fs, active_feeder_ids) ==
  [i \in DOMAIN fs |->
     IF i \notin active_feeder_ids THEN [fs[i] EXCEPT !.status = "stale"] ELSE fs[i]]

mark_inactive_feeders_NoneExempt(fs, active_feeder_ids) ==
  [i \in DOMAIN fs |->
     IF fs[i].status = "active" THEN [fs[i] EXCEPT !.status = "stale"] ELSE fs[i]]

mark_inactive_feeders(fs, active_feeder_ids) ==
  [i \in DOMAIN fs |->
     IF fs[i].status = "active" /\ i \notin active_feeder_ids
     THEN [fs[i] EXCEPT !.status = "stale"]
     ELSE fs[i]]

\* What the store was given for one session: the sums of the arguments of the
\* update_feeder_stats calls made for it, and how many calls each caller made.
NoneWritten == [bytes |-> 0, messages |-> 0, positions |-> 0,
                tick_calls |-> 0, teardown_calls |-> 0]

Written(w, by, b, m, p) ==
  [bytes |-> w.bytes + b, messages |-> w.messages + m, positions |-> w.positions + p,
   tick_calls |-> w.tick_calls + (IF by = "tick" THEN 1 ELSE 0),
   teardown_calls |-> w.teardown_calls + (IF by = "teardown" THEN 1 ELSE 0)]

\* ------------------------------------------------------------ vpn_resolver
\* An address string is modelled by the sequence of the numbers between its
\* dots: "100.64.0.1" is <<100, 64, 0, 1>>.  A CIDR string is such a sequence
\* and a prefix length.
_CACHE_TTL == 60

CIDR_100_64 == [addr |-> <<100, 64, 0, 0>>, prefix |-> 10]   \* "100.64.0.0/10"
CIDR_10_10  == [addr |-> <<10, 10, 0, 7>>, prefix |-> 16]    \* "10.10.0.7/16"

RECURSIVE Pow2(_)
Pow2(n) == IF n = 0 THEN 1 ELSE 2 * Pow2(n - 1)

\* ipaddress.ipaddress_ip_address(ip_str): the 32-bit value, or -1 for the ValueError
ipaddress_ip_address(ip_str) ==
  IF Len(ip_str) = 4 /\ \A i \in 1..4 : ip_str[i] \in 0..255
  THEN ((ip_str[1] * 256 + ip_str[2]) * 256 + ip_str[3]) * 256 + ip_str[4]
  ELSE -1

\* ipaddress.ipaddress_ip_network(cidr, strict=False): the host bits are masked off
ipaddress_ip_network(cidr) ==
  LET size == Pow2(32 - cidr.prefix)
  IN [network_address |-> (ipaddress_ip_address(cidr.addr) \div size) * size, size |-> size]

\* addr in net
InNetwork_Any(addr, network) == network.network_address # -1

InNetwork(addr, network) ==
  (addr \div network.size) * network.size = network.network_address

\* lines 23-24: None when the overlay is disabled
NoNet == [network_address |-> -1, size |-> 1]
_tailscale_net == IF config.TAILSCALE_ENABLED THEN ipaddress_ip_network(config.TAILSCALE_CIDR)
                  ELSE NoNet
_netbird_net   == IF config.NETBIRD_ENABLED THEN ipaddress_ip_network(config.NETBIRD_CIDR)
                  ELSE NoNet

\* the environments the resolver is run in: the shipped defaults (NetBird
\* off), both overlays on the same range, both on disjoint ranges, and NetBird
\* on without an API token
DefaultConfig ==
  [TAILSCALE_ENABLED |-> TRUE, TAILSCALE_CIDR |-> CIDR_100_64,
   NETBIRD_ENABLED |-> FALSE, NETBIRD_CIDR |-> CIDR_100_64, NETBIRD_API_TOKEN |-> FALSE]

Configs ==
  {DefaultConfig,
   [DefaultConfig EXCEPT !.NETBIRD_ENABLED = TRUE, !.NETBIRD_API_TOKEN = TRUE],
   [DefaultConfig EXCEPT !.NETBIRD_ENABLED = TRUE, !.NETBIRD_API_TOKEN = TRUE,
                         !.NETBIRD_CIDR = CIDR_10_10],
   [DefaultConfig EXCEPT !.NETBIRD_ENABLED = TRUE]}

\* the addresses the proxy asks about: inside 100.64.0.0/10, its last address,
\* the first address after it, inside 10.10.0.0/16, a public one, and two
\* strings that are no IPv4 address
A_CGNAT   == <<100, 64, 0, 1>>
A_LAST    == <<100, 127, 255, 255>>
A_AFTER   == <<100, 128, 0, 0>>
A_TEN     == <<10, 10, 3, 4>>
A_PUBLIC  == <<8, 8, 8, 8>>
A_BAD     == <<300, 1, 1, 1>>
A_SHORT   == <<10, 10, 3>>
Addresses == {A_CGNAT, A_LAST, A_AFTER, A_TEN, A_PUBLIC, A_BAD, A_SHORT}

\* What the two peer APIs may answer to a refresh.  kind: "raise" (the request
\* raises: timeout, connection refused), "status" (a response other than 200),
\* "nosocket" (Tailscale only: the socket path does not exist) or "ok" with the
\* decoded JSON.  A JSON element with dict = FALSE is not an object, so that
\* calling .get on it raises.
NbPeer(ip, ip_addresses, name) ==
  [dict |-> TRUE, ip |-> ip, ips |-> ip_addresses, name |-> name]
TsPeer(TailscaleIPs, HostName) ==
  [dict |-> TRUE, ip |-> <<>>, ips |-> TailscaleIPs, name |-> HostName]
NotADict == [dict |-> FALSE, ip |-> <<>>, ips |-> <<>>, name |-> ""]

NetbirdReplies ==
  {[kind |-> "raise", peers |-> <<>>],
   [kind |-> "status", peers |-> <<>>],
   [kind |-> "ok", peers |-> <<>>],
   [kind |-> "ok", peers |-> <<NbPeer(A_CGNAT, <<>>, "nb-1")>>],
   [kind |-> "ok", peers |-> <<NbPeer(A_PUBLIC, <<A_PUBLIC, A_TEN>>, "nb-2")>>],
   [kind |-> "ok", peers |-> <<NbPeer(A_LAST, <<>>, "nb-3"), NotADict>>]}

TailscaleReplies ==
  {[kind |-> "nosocket", peers |-> <<>>],
   [kind |-> "raise", peers |-> <<>>],
   [kind |-> "status", peers |-> <<>>],
   [kind |-> "ok", peers |-> <<TsPeer(<<A_CGNAT>>, "ts-1")>>],
   [kind |-> "ok", peers |-> <<TsPeer(<<A_LAST, A_PUBLIC>>, "ts-2")>>],
   [kind |-> "ok", peers |-> <<TsPeer(<<A_TEN>>, "ts-3"), NotADict>>]}

\* mapping[key] = p
Put(mapping, key, p) ==
  [k \in DOMAIN mapping \cup {key} |-> IF k = key THEN p ELSE mapping[k]]

RECURSIVE PutAll(_, _, _)
PutAll(mapping, keys, p) ==
  IF keys = <<>> THEN mapping
  ELSE PutAll(Put(mapping, Head(keys), p), Tail(keys), p)

NoPeers == [k \in {} |-> NotADict]

\* Lines 53-60: the loop that builds the NetBird mapping.  The result is
\* [raised, mapping]; when an element raises, the loop is left with what was
\* built so far.
RECURSIVE netbird_mapping(_, _)
netbird_mapping(peers, mapping) ==
  IF peers = <<>> THEN [raised |-> FALSE, mapping |-> mapping]
  ELSE LET p == Head(peers)
           m1 == IF p.ip # <<>> THEN Put(mapping, p.ip, p) ELSE mapping
           extra == SelectSeq(p.ips, LAMBDA x : x # <<>> /\ x # p.ip)
       IN IF ~p.dict THEN [raised |-> TRUE, mapping |-> mapping]
          ELSE netbird_mapping(Tail(peers), PutAll(m1, extra, p))

\* Lines 94-97: the loop that builds the Tailscale mapping.
RECURSIVE tailscale_mapping(_, _)
tailscale_mapping(peers, mapping) ==
  IF peers = <<>> THEN [raised |-> FALSE, mapping |-> mapping]
  ELSE LET peer == Head(peers)
       IN IF ~peer.dict THEN [raised |-> TRUE, mapping |-> mapping]
          ELSE tailscale_mapping(Tail(peers), PutAll(mapping, peer.ips, peer))

\* The resolver's globals as one record rs, handed from call to call:
\* np/nts the NetBird mapping and timestamp, tp/tts the Tailscale ones, and
\* nref/tref the calls of _refresh_netbird / _refresh_tailscale made so far.
_refresh_netbird_Partial(rs, reply, now) ==
  LET built == netbird_mapping(reply.peers, NoPeers)
  IN IF ~config.NETBIRD_API_TOKEN THEN [rs EXCEPT !.nref = @ + 1]
     ELSE IF reply.kind = "ok"
          THEN [rs EXCEPT !.np = built.mapping, !.nts = now, !.nref = @ + 1]
          ELSE [rs EXCEPT !.nref = @ + 1]

_refresh_netbird(rs, reply, now) ==
  LET built == netbird_mapping(reply.peers, NoPeers)
  IN IF ~config.NETBIRD_API_TOKEN THEN [rs EXCEPT !.nref = @ + 1]
     ELSE IF reply.kind = "ok" /\ ~built.raised
          THEN [rs EXCEPT !.np = built.mapping, !.nts = now, !.nref = @ + 1]
          ELSE [rs EXCEPT !.nref = @ + 1]

_refresh_tailscale(rs, reply, now) ==
  LET built == tailscale_mapping(reply.peers, NoPeers)
  IN IF reply.kind = "ok" /\ ~built.raised
     THEN [rs EXCEPT !.tp = built.mapping, !.tts = now, !.tref = @ + 1]
     ELSE [rs EXCEPT !.tref = @ + 1]

\* Lines 67-73 and 104-110.  The result is [rs, found, peer]: found is the
\* truth value of the returned peer (None and the empty dict are false; a
\* stored peer is never empty, it has the key it was stored under).
_get_netbird_peer_AlwaysRefresh(rs, ip_str, reply, now) ==
  IF ~config.NETBIRD_ENABLED \/ ~config.NETBIRD_API_TOKEN
  THEN [rs |-> rs, found |-> FALSE, peer |-> NotADict]
  ELSE LET rs1 == _refresh_netbird(rs, reply, now)
       IN IF ip_str \in DOMAIN rs1.np
          THEN [rs |-> rs1, found |-> TRUE, peer |-> rs1.np[ip_str]]
          ELSE [rs |-> rs1, found |-> FALSE, peer |-> NotADict]

_get_netbird_peer_Blind(rs, ip_str, reply, now) ==
  [rs |-> IF config.NETBIRD_ENABLED /\ config.NETBIRD_API_TOKEN
                /\ now - rs.nts > _CACHE_TTL
          THEN _refresh_netbird(rs, reply, now) ELSE rs,
   found |-> FALSE, peer |-> NotADict]

_get_netbird_peer(rs, ip_str, reply, now) ==
  IF ~config.NETBIRD_ENABLED \/ ~config.NETBIRD_API_TOKEN
  THEN [rs |-> rs, found |-> FALSE, peer |-> NotADict]
  ELSE LET rs1 == IF now - rs.nts > _CACHE_TTL THEN _refresh_netbird(rs, reply, now)
                  ELSE rs
       IN IF ip_str \in DOMAIN rs1.np
          THEN [rs |-> rs1, found |-> TRUE, peer |-> rs1.np[ip_str]]
          ELSE [rs |-> rs1, found |-> FALSE, peer |-> NotADict]

_get_tailscale_peer(rs, ip_str, reply, now) ==
  IF ~config.TAILSCALE_ENABLED
  THEN [rs |-> rs, found |-> FALSE, peer |-> NotADict]
  ELSE LET rs1 == IF now - rs.tts > _CACHE_TTL THEN _refresh_tailscale(rs, reply, now)
                  ELSE rs
       IN IF ip_str \in DOMAIN rs1.tp
          THEN [rs |-> rs1, found |-> TRUE, peer |-> rs1.tp[ip_str]]
          ELSE [rs |-> rs1, found |-> FALSE, peer |-> NotADict]

\* Lines 131-144: the decision, given whether the address is in each range
\* and whether each cache returned a peer for it.
classify_decision_RangeFirst(in_netbird_range, nb_found, in_tailscale_range, ts_found) ==
  IF in_netbird_range THEN "netbird"
  ELSE IF in_tailscale_range THEN "tailscale"
  ELSE "public"

classify_decision_TailscaleFallback(in_netbird_range, nb_found, in_tailscale_range, ts_found) ==
  IF in_netbird_range /\ nb_found THEN "netbird"
  ELSE IF in_tailscale_range /\ ts_found THEN "tailscale"
  ELSE IF in_tailscale_range THEN "tailscale"
  ELSE IF in_netbird_range THEN "netbird"
  ELSE "public"

classify_decision(in_netbird_range, nb_found, in_tailscale_range, ts_found) ==
  IF in_netbird_range /\ nb_found THEN "netbird"
  ELSE IF in_tailscale_range /\ ts_found THEN "tailscale"
  ELSE IF in_netbird_range THEN "netbird"
  ELSE IF in_tailscale_range THEN "tailscale"
  ELSE "public"

\* Lines 115-144.  The result is [rs, result].  The two `and` of lines 132 and
\* 135 short-circuit: the NetBird cache is consulted only for an address in
\* its range, the Tailscale cache only for an address in its range for which
\* line 132 did not return.
classify_connection(rs, ip_str, nb_reply, ts_reply, now) ==
  LET addr == ipaddress_ip_address(ip_str)
      in_netbird_range == config.NETBIRD_ENABLED /\ InNetwork(addr, _netbird_net)
      in_tailscale_range == config.TAILSCALE_ENABLED /\ InNetwork(addr, _tailscale_net)
      nb == IF in_netbird_range THEN _get_netbird_peer(rs, ip_str, nb_reply, now)
            ELSE [rs |-> rs, found |-> FALSE, peer |-> NotADict]
      ts == IF in_tailscale_range /\ ~nb.found
            THEN _get_tailscale_peer(nb.rs, ip_str, ts_reply, now)
            ELSE [rs |-> nb.rs, found |-> FALSE, peer |-> NotADict]
  IN IF addr = -1 THEN [rs |-> rs, result |-> "public"]
     ELSE [rs |-> ts.rs,
           result |-> classify_decision(in_netbird_range, nb.found,
                                        in_tailscale_range, ts.found)]

\* Lines 147-157.  The names of the modelled peers are never empty, so
\* `peer.get("name") or peer.get("hostname", "")` is the name; "None" is None.
resolve_hostname(rs, ip_str, conn_type, nb_reply, ts_reply, now) ==
  IF conn_type = "netbird"
  THEN LET got == _get_netbird_peer(rs, ip_str, nb_reply, now)
       IN [rs |-> got.rs, result |-> IF got.found THEN got.peer.name ELSE "None"]
  ELSE IF conn_type = "tailscale"
  THEN LET got == _get_tailscale_peer(rs, ip_str, ts_reply, now)
       IN [rs |-> got.rs, result |-> IF got.found THEN got.peer.name ELSE "None"]
  ELSE [rs |-> rs, result |-> "None"]

\* the globals as the record the operators above work on
Globals == [np |-> netbird_peers, nts |-> netbird_cache_ts,
            tp |-> tailscale_peers, tts |-> tailscale_cache_ts,
            nref |-> 0, tref |-> 0]

NoRet == [fn |-> "none", ip |-> <<>>, result |-> "None", nref |-> 0, tref |-> 0]

\* A call returns: the globals take the values the call left, ret records it.
Return(fn, ip_str, out) ==
  /\ netbird_peers' = out.rs.np
  /\ netbird_cache_ts' = out.rs.nts
  /\ tailscale_peers' = out.rs.tp
  /\ tailscale_cache_ts' = out.rs.tts
  /\ ret' = [fn |-> fn, ip |-> ip_str, result |-> out.result,
             nref |-> out.rs.nref, tref |-> out.rs.tref]
  /\ UNCHANGED <<config, clock>>

\* handle_client, line 100 (a synchronous call: one step)
ClassifyConnection(ip_str, nb_reply, ts_reply) ==
  Return("classify", ip_str, classify_connection(Globals, ip_str, nb_reply, ts_reply, clock))

\* handle_client, lines 107-109: after an address was classified as an overlay
\* address, its hostname is resolved
ResolveHostname(nb_reply, ts_reply) ==
  /\ ret.fn = "classify"
  /\ ret.result \in {"tailscale", "netbird"}
  /\ Return("resolve", ret.ip,
            resolve_hostname(Globals, ret.ip, ret.result, nb_reply, ts_reply, clock))

\* Lines 160-164, called by stats_flusher at the end of each tick (line 269).
refresh_caches ==
  /\ netbird_cache_ts' = 0
  /\ tailscale_cache_ts' = 0
  /\ ret' = [NoRet EXCEPT !.fn = "refresh_caches"]
  /\ UNCHANGED <<config, netbird_peers, tailscale_peers, clock>>

\* time passes
ClockStep == 30
MaxClock  == 180
StartClocks == {0, 90}       \* time.monotonic() when the module is imported

AdvanceClock ==
  /\ clock + ClockStep <= MaxClock
  /\ clock' = clock + ClockStep
  /\ UNCHANGED <<config, netbird_peers, netbird_cache_ts, tailscale_peers,
                 tailscale_cache_ts, ret>>

\* lines 30-34: empty caches, timestamps 0.0
ResolverInit(cfg, start) ==
  /\ config = cfg
  /\ netbird_peers = NoPeers
  /\ netbird_cache_ts = 0
  /\ tailscale_peers = NoPeers
  /\ tailscale_cache_ts = 0
  /\ clock = start
  /\ ret = NoRet

\* ------------------------------------------------------------------- Init
NoConn == [feeder_id |-> 0, connection_id |-> 0, ip |-> "",
           bytes |-> 0, bytes_flushed |-> 0,
           messages |-> 0, messages_flushed |-> 0,
           positions |-> 0, positions_flushed |-> 0, last_data |-> 0]

\* Spec follows the proxy and leaves the resolver as it is at import;
\* ResolverSpec follows the resolver and leaves the proxy as it is at start;
\* CounterSpec follows one call of count_beast_frames.
ProxyInit ==
  /\ total_connections = 0
  /\ pc = [s \in Sessions |-> "idle"]
  /\ fwd = [s \in Sessions |-> [inbound |-> "none", outbound |-> "none", chunk |-> <<>>]]
  /\ conn_info = [s \in Sessions |-> NoConn]
  /\ active_connections = {}
  /\ sock = [s \in Sessions |-> [writer |-> "none", readsb_writer |-> "none"]]
  /\ net = [s \in Sessions |->
              [client_sent |-> <<>>, client_eof |-> FALSE, inbound_read |-> 0,
               to_upstream |-> <<>>, upstream_eof |-> FALSE,
               upstream_sent |-> <<>>, outbound_read |-> 0, to_client |-> <<>>]]
  /\ feeders = <<>>
  /\ connections = <<>>
  /\ written = [s \in Sessions |-> NoneWritten]
  /\ flusher = "sleeping"
  /\ shutdown = FALSE
  /\ hist = [s \in Sessions |-> [cause |-> "none", opens |-> 0]]

Init == ProxyInit /\ ResolverInit(DefaultConfig, 0) /\ CounterIdle

ResolverStart ==
  /\ ProxyInit /\ CounterIdle
  /\ \E cfg \in Configs, start \in StartClocks : ResolverInit(cfg, start)

\* ------------------------------------------------------------- helpers
RECURSIVE SumOver(_, _)
SumOver(f, S) ==
  IF S = {} THEN 0
  ELSE LET x == CHOOSE y \in S : TRUE IN f[x] + SumOver(f, S \ {x})

\* payloads the clients have put on the wire so far (each is two bytes long)
SendsMade == SumOver([s \in Sessions |-> Len(net[s].client_sent) \div 2], Sessions)

\* store calls that have raised so far: each one ended a task
FaultsMade == Cardinality({s \in Sessions : pc[s] = "crashed"})
              + (IF flusher = "dead" THEN 1 ELSE 0)

\* bytes the client has sent that the inbound loop has not read yet
InboundAvail(s) == Len(net[s].client_sent) - net[s].inbound_read

\* payloads the upstream has put on the wire so far, and the bytes of them
\* that the outbound loop has not read yet
RepliesMade == SumOver([s \in Sessions |-> Len(net[s].upstream_sent) \div 2], Sessions)
OutboundAvail(s) == Len(net[s].upstream_sent) - net[s].outbound_read

\* a forward_stream loop that has returned, and how: read() returned b""
\* ("eof"), lines 80-83 caught an exception ("error"), or lines 80-81 caught
\* the CancelledError ("cancelled")
Ended(state) == state \in {"eof", "error", "cancelled"}

\* ------------------------------------------------- the conn_info counters
\* Lines 160-162 and 233-235: what has been counted but not yet flushed.
unflushed_Total(ci) ==
  [bytes |-> ci.bytes, messages |-> ci.messages, positions |-> ci.positions]

unflushed(ci) ==
  [bytes     |-> ci.bytes - ci.bytes_flushed,
   messages  |-> ci.messages - ci.messages_flushed,
   positions |-> ci.positions - ci.positions_flushed]

\* Lines 239-241: the watermarks move up to the running totals.
advance_watermarks_BytesOnly(ci) == [ci EXCEPT !.bytes_flushed = ci.bytes]

advance_watermarks_Accumulate(ci) ==
  [ci EXCEPT !.bytes_flushed = @ + ci.bytes,
             !.messages_flushed = @ + ci.messages,
             !.positions_flushed = @ + ci.positions]

advance_watermarks(ci) ==
  [ci EXCEPT !.bytes_flushed = ci.bytes,
             !.messages_flushed = ci.messages,
             !.positions_flushed = ci.positions]

\* --------------------------------------------------- handle_client teardown
\* Line 169: active_connections.pop(conn_id, None).
registry_pop_Keep(registry, s) == registry

registry_pop(registry, s) == registry \ {s}

\* The finally block of handle_client.  It contains no await, so it is one
\* step.  fail names the store call that raises: "none", "stats"
\* (update_feeder_stats) or "disc" (log_disconnection).  A raise leaves the
\* rest of the block undone and ends the handler task with the exception.
Teardown(s, cause, fail) ==
  LET ci == conn_info[s]
      unflushed_bytes == unflushed(ci).bytes
      unflushed_msgs  == unflushed(ci).messages
      unflushed_pos   == unflushed(ci).positions
      flush == unflushed_bytes > 0 \/ unflushed_msgs > 0
      fs1 == IF flush
             THEN update_feeder_stats(feeders, ci.feeder_id, unflushed_bytes,
                                      unflushed_msgs, unflushed_pos)
             ELSE feeders
      w1 == IF flush
            THEN Written(written[s], "teardown", unflushed_bytes, unflushed_msgs,
                         unflushed_pos)
            ELSE written[s]
      disc == log_disconnection(fs1, connections, ci.feeder_id, ci.connection_id, ci.bytes)
  IN
  /\ fail = "stats" => flush
  /\ fail # "none" => FaultsMade < MaxFaults
  /\ hist' = [hist EXCEPT ![s].cause = cause]
  /\ UNCHANGED <<total_connections, fwd, conn_info, net, flusher, shutdown>>
  /\ CASE fail = "stats" ->
            /\ pc' = [pc EXCEPT ![s] = "crashed"]
            /\ UNCHANGED <<feeders, connections, written, active_connections, sock>>
       [] fail = "disc" ->
            /\ pc' = [pc EXCEPT ![s] = "crashed"]
            /\ feeders' = fs1
            /\ written' = [written EXCEPT ![s] = w1]
            /\ UNCHANGED <<connections, active_connections, sock>>
       [] OTHER ->
            /\ pc' = [pc EXCEPT ![s] = "done"]
            /\ feeders' = disc[1]
            /\ connections' = disc[2]
            /\ written' = [written EXCEPT ![s] = w1]
            /\ active_connections' = registry_pop(active_connections, s)
            /\ sock' = [sock EXCEPT ![s].writer = "closed",
                                    ![s].readsb_writer =
                                       IF @ = "none" THEN "none" ELSE "closed"]

TeardownFails == {"none", "stats", "disc"}
AcceptFails   == {"none", "upsert", "log"}

\* ------------------------------------------------------------ handle_client
HandleClientReject_Upserts(s) ==
  /\ ~shutdown
  /\ pc[s] = "idle" /\ s = total_connections + 1
  /\ total_connections' = total_connections + 1
  /\ pc' = [pc EXCEPT ![s] = "rejected"]
  /\ sock' = [sock EXCEPT ![s].writer = "closed"]
  /\ feeders' = upsert_feeder(feeders, "")[1]
  /\ UNCHANGED <<fwd, conn_info, active_connections, net, connections,
                 written, flusher, shutdown, hist>>

\* Lines 86-94: the peer address is unknown; close and return.
HandleClientReject(s) ==
  /\ ~shutdown
  /\ pc[s] = "idle" /\ s = total_connections + 1
  /\ total_connections' = total_connections + 1
  /\ pc' = [pc EXCEPT ![s] = "rejected"]
  /\ sock' = [sock EXCEPT ![s].writer = "closed"]
  /\ UNCHANGED <<fwd, conn_info, active_connections, net, feeders, connections,
                 written, flusher, shutdown, hist>>

\* Lines 86-146: register the feeder, log the connection, enter the registry
\* and start opening the upstream connection (the first await).
\* fail: "none", "upsert" (upsert_feeder raises) or "log" (log_connection raises).
HandleClient(s, ip_address, fail) ==
  LET up == upsert_feeder(feeders, ip_address)
      feeder_id == up[2]
      lc == log_connection(connections, feeder_id, ip_address)
      connection_id == lc[2]
  IN
  /\ ~shutdown
  /\ pc[s] = "idle" /\ s = total_connections + 1
  /\ fail # "none" => FaultsMade < MaxFaults
  /\ total_connections' = total_connections + 1
  /\ sock' = [sock EXCEPT ![s].writer = "open"]
  /\ UNCHANGED <<fwd, net, written, flusher, shutdown>>
  /\ CASE fail = "upsert" ->
            /\ pc' = [pc EXCEPT ![s] = "crashed"]
            /\ UNCHANGED <<feeders, connections, conn_info, active_connections, hist>>
       [] fail = "log" ->
            /\ pc' = [pc EXCEPT ![s] = "crashed"]
            /\ feeders' = up[1]
            /\ UNCHANGED <<connections, conn_info, active_connections, hist>>
       [] OTHER ->
            /\ pc' = [pc EXCEPT ![s] = "connecting"]
            /\ feeders' = up[1]
            /\ connections' = lc[1]
            /\ conn_info' = [conn_info EXCEPT ![s] =
                   [feeder_id |-> feeder_id, connection_id |-> connection_id,
                    ip |-> ip_address,
                    bytes |-> 0, bytes_flushed |-> 0,
                    messages |-> 0, messages_flushed |-> 0,
                    positions |-> 0, positions_flushed |-> 0, last_data |-> 0]]
            /\ active_connections' = active_connections \cup {s}
            /\ hist' = [hist EXCEPT ![s].opens = @ + 1]

\* Line 146 returns: the upstream connection is open; gather starts both loops,
\* which await their first read.
UpstreamConnected(s) ==
  /\ ~shutdown
  /\ pc[s] = "connecting"
  /\ pc' = [pc EXCEPT ![s] = "relay"]
  /\ fwd' = [fwd EXCEPT ![s].inbound = "read", ![s].outbound = "read"]
  /\ sock' = [sock EXCEPT ![s].readsb_writer = "open"]
  /\ UNCHANGED <<total_connections, conn_info, active_connections, net, feeders,
                 connections, written, flusher, shutdown, hist>>

\* Line 146 raises ConnectionRefusedError / OSError: lines 154-155, then finally.
UpstreamRefused(s, fail) ==
  /\ ~shutdown
  /\ pc[s] = "connecting"
  /\ Teardown(s, "refused", fail)

\* The handler task is cancelled while awaiting open_connection: lines 156-157,
\* then finally.
CancelledConnecting(s, fail) ==
  /\ shutdown
  /\ pc[s] = "connecting"
  /\ Teardown(s, "cancelled", fail)

\* gather returns, or raises CancelledError after a shutdown, once both loops
\* have ended: finally.
GatherDone(s, fail) ==
  /\ pc[s] = "relay"
  /\ Ended(fwd[s].inbound) /\ Ended(fwd[s].outbound)
  /\ Teardown(s, IF shutdown THEN "cancelled" ELSE "closed", fail)

\* ----------------------------------------------------------- forward_stream
\* Inbound loop, lines 68-72: n bytes have arrived, read() returns them (at
\* most READ_SIZE), they are written to the upstream and the loop awaits
\* drain().  Once the client has closed, all it sent has arrived.
InboundRead(s, n) ==
  /\ ~shutdown
  /\ fwd[s].inbound = "read"
  /\ n \in 1..Min(InboundAvail(s), READ_SIZE)
  /\ net[s].client_eof => n = Min(InboundAvail(s), READ_SIZE)
  /\ LET data == SubSeq(net[s].client_sent, net[s].inbound_read + 1,
                        net[s].inbound_read + n)
     IN /\ net' = [net EXCEPT ![s].inbound_read = @ + n,
                              ![s].to_upstream = @ \o data]
        /\ fwd' = [fwd EXCEPT ![s].inbound = "drain", ![s].chunk = data]
  /\ UNCHANGED <<total_connections, pc, conn_info, active_connections, sock,
                 feeders, connections, written, flusher, shutdown, hist>>

\* Lines 73-79 and back to line 68: drain() returned, the chunk is counted
\* and the loop reads again.  read() returns b"" at once when the client has
\* closed and nothing is left to read (lines 69-70: the loop ends).
InboundCount(s) ==
  LET data == fwd[s].chunk
      counted == count_beast_frames(data)
  IN
  /\ ~shutdown
  /\ fwd[s].inbound = "drain"
  /\ conn_info' = [conn_info EXCEPT ![s].bytes = @ + Len(data),
                                    ![s].messages = @ + counted[1],
                                    ![s].positions = @ + counted[2],
                                    ![s].last_data = @ + 1]
  /\ fwd' = [fwd EXCEPT ![s].inbound =
                           IF net[s].client_eof /\ InboundAvail(s) = 0
                           THEN "eof" ELSE "read",
                        ![s].chunk = <<>>]
  /\ UNCHANGED <<total_connections, pc, active_connections, sock, net,
                 feeders, connections, written, flusher, shutdown, hist>>

\* Lines 80-83: drain() raises because the upstream connection is gone; the
\* chunk just written is not counted and the loop ends.
InboundError(s) ==
  /\ ~shutdown
  /\ fwd[s].inbound = "drain"
  /\ net[s].upstream_eof
  /\ fwd' = [fwd EXCEPT ![s].inbound = "error", ![s].chunk = <<>>]
  /\ UNCHANGED <<total_connections, pc, conn_info, active_connections, sock, net,
                 feeders, connections, written, flusher, shutdown, hist>>

\* Outbound loop, lines 68-72: read() returns n bytes the upstream has sent,
\* they are written to the client and the loop awaits drain().
OutboundRead_Twice(s, n) ==
  /\ ~shutdown
  /\ fwd[s].outbound = "read"
  /\ n \in 1..Min(OutboundAvail(s), READ_SIZE)
  /\ net[s].upstream_eof => n = Min(OutboundAvail(s), READ_SIZE)
  /\ LET data == SubSeq(net[s].upstream_sent, net[s].outbound_read + 1,
                        net[s].outbound_read + n)
     IN net' = [net EXCEPT ![s].outbound_read = @ + n,
                           ![s].to_client = @ \o data \o data]
  /\ fwd' = [fwd EXCEPT ![s].outbound = "drain"]
  /\ UNCHANGED <<total_connections, pc, conn_info, active_connections, sock,
                 feeders, connections, written, flusher, shutdown, hist>>

OutboundRead(s, n) ==
  /\ ~shutdown
  /\ fwd[s].outbound = "read"
  /\ n \in 1..Min(OutboundAvail(s), READ_SIZE)
  /\ net[s].upstream_eof => n = Min(OutboundAvail(s), READ_SIZE)
  /\ LET data == SubSeq(net[s].upstream_sent, net[s].outbound_read + 1,
                        net[s].outbound_read + n)
     IN net' = [net EXCEPT ![s].outbound_read = @ + n,
                           ![s].to_client = @ \o data]
  /\ fwd' = [fwd EXCEPT ![s].outbound = "drain"]
  /\ UNCHANGED <<total_connections, pc, conn_info, active_connections, sock,
                 feeders, connections, written, flusher, shutdown, hist>>

OutboundDrained_Counts(s) ==
  /\ ~shutdown
  /\ fwd[s].outbound = "drain"
  /\ fwd' = [fwd EXCEPT ![s].outbound =
                           IF net[s].upstream_eof /\ OutboundAvail(s) = 0
                           THEN "eof" ELSE "read"]
  /\ conn_info' = [conn_info EXCEPT ![s].last_data = @ + 1]
  /\ UNCHANGED <<total_connections, pc, active_connections, sock, net,
                 feeders, connections, written, flusher, shutdown, hist>>

\* Line 72 returns and line 73 is false for this direction: nothing is counted
\* and the loop reads again (lines 69-70 end it at the upstream's EOF).
OutboundDrained(s) ==
  /\ ~shutdown
  /\ fwd[s].outbound = "drain"
  /\ fwd' = [fwd EXCEPT ![s].outbound =
                           IF net[s].upstream_eof /\ OutboundAvail(s) = 0
                           THEN "eof" ELSE "read"]
  /\ UNCHANGED <<total_connections, pc, conn_info, active_connections, sock, net,
                 feeders, connections, written, flusher, shutdown, hist>>

\* Lines 80-83: drain() raises because the client is gone; the loop ends.
OutboundError(s) ==
  /\ ~shutdown
  /\ fwd[s].outbound = "drain"
  /\ net[s].client_eof
  /\ fwd' = [fwd EXCEPT ![s].outbound = "error"]
  /\ UNCHANGED <<total_connections, pc, conn_info, active_connections, sock, net,
                 feeders, connections, written, flusher, shutdown, hist>>

\* ------------------------------------------------------------- environment
\* The upstream writes a payload.
UpstreamSend(s, payload) ==
  /\ ~shutdown
  /\ pc[s] = "relay"
  /\ ~net[s].upstream_eof
  /\ RepliesMade < MaxReplies
  /\ net' = [net EXCEPT ![s].upstream_sent = @ \o payload]
  /\ UNCHANGED <<total_connections, pc, fwd, conn_info, active_connections, sock,
                 feeders, connections, written, flusher, shutdown, hist>>

\* The client writes a payload.
ClientSend(s, payload) ==
  /\ ~shutdown
  /\ pc[s] = "relay"
  /\ ~net[s].client_eof
  /\ SendsMade < MaxSends
  /\ net' = [net EXCEPT ![s].client_sent = @ \o payload]
  /\ UNCHANGED <<total_connections, pc, fwd, conn_info, active_connections, sock,
                 feeders, connections, written, flusher, shutdown, hist>>

\* The client closes.  An inbound loop that waits in read() with nothing left
\* to read gets b"" (lines 69-70) and ends; otherwise it meets the EOF later.
ClientClose(s) ==
  /\ ~shutdown
  /\ pc[s] = "relay"
  /\ ~net[s].client_eof
  /\ net' = [net EXCEPT ![s].client_eof = TRUE]
  /\ fwd' = [fwd EXCEPT ![s].inbound =
                           IF @ = "read" /\ InboundAvail(s) = 0 THEN "eof" ELSE @]
  /\ UNCHANGED <<total_connections, pc, conn_info, active_connections, sock,
                 feeders, connections, written, flusher, shutdown, hist>>

\* The upstream closes.  An outbound loop that waits in read() with nothing
\* left to read gets b"" (lines 69-70) and ends; otherwise it meets the EOF
\* later.
UpstreamClose(s) ==
  /\ ~shutdown
  /\ pc[s] = "relay"
  /\ ~net[s].upstream_eof
  /\ net' = [net EXCEPT ![s].upstream_eof = TRUE]
  /\ fwd' = [fwd EXCEPT ![s].outbound =
                           IF @ = "read" /\ OutboundAvail(s) = 0 THEN "eof" ELSE @]
  /\ UNCHANGED <<total_connections, pc, conn_info, active_connections, sock,
                 feeders, connections, written, flusher, shutdown, hist>>

\* --------------------------------------------------------- shutdown_handler
\* Lines 301-304: every task is cancelled.  The copy loops take the
\* CancelledError at their await (lines 80-81) and end; the stats_flusher
\* task ends; each handler runs its finally block in a later step.
shutdown_handler_FlagOnly ==
  /\ ~shutdown
  /\ shutdown' = TRUE
  /\ UNCHANGED <<total_connections, pc, fwd, conn_info, active_connections, sock,
                 net, feeders, connections, written, flusher, hist>>

shutdown_handler ==
  /\ ~shutdown
  /\ shutdown' = TRUE
  /\ flusher' = IF flusher = "sleeping" THEN "cancelled" ELSE flusher
  /\ fwd' = [s \in Sessions |->
               [inbound  |-> IF fwd[s].inbound \in {"read", "drain"} THEN "cancelled"
                             ELSE fwd[s].inbound,
                outbound |-> IF fwd[s].outbound \in {"read", "drain"} THEN "cancelled"
                             ELSE fwd[s].outbound,
                chunk    |-> <<>>]]
  /\ UNCHANGED <<total_connections, pc, conn_info, active_connections, sock, net,
                 feeders, connections, written, hist>>

\* ------------------------------------------------------------ stats_flusher
\* get_mlat_connected_ips, lines 191-217.  The log is "unreadable" (open or
\* parse raises) or a sequence of lines; a line names an address and is a
\* "handshake" line, a "lost" line or some "other" line.  Only the last
\* MLAT_TAIL lines count and the last matching line of an address decides.
get_mlat_connected_ips(log) ==
  IF log = "unreadable" THEN {}
  ELSE LET from == IF Len(log) > MLAT_TAIL THEN Len(log) - MLAT_TAIL + 1 ELSE 1
           lines == SubSeq(log, from, Len(log))
           matching(ip) == {i \in DOMAIN lines :
                              lines[i].ip = ip /\ lines[i].kind \in {"handshake", "lost"}}
           lastOf(ip) == CHOOSE i \in matching(ip) : \A j \in matching(ip) : j <= i
       IN {ip \in IPs : matching(ip) # {} /\ lines[lastOf(ip)].kind = "handshake"}

\* One pass of the loop body, lines 229-247, for the session s.  st carries
\* the store and the session dicts through the loop; st.calls counts the store
\* calls made so far and the call number failAt raises, which ends the task.
FlushConn(st, s, mlat_ips, failAt) ==
  IF ~st.ok THEN st
  ELSE
  LET ci == st.ci[s]
      feeder_id == ci.feeder_id
      unflushed_bytes == unflushed(ci).bytes
      unflushed_msgs  == unflushed(ci).messages
      unflushed_pos   == unflushed(ci).positions
      c1 == st.calls + 1
      c2 == st.calls + 2
      st1 == IF unflushed_bytes > 0 \/ unflushed_msgs > 0
             THEN [st EXCEPT
                     !.fs = update_feeder_stats(st.fs, feeder_id, unflushed_bytes,
                                                unflushed_msgs, unflushed_pos),
                     !.ci[s] = advance_watermarks(ci),
                     !.sl[s] = Written(@, "tick", unflushed_bytes, unflushed_msgs,
                                       unflushed_pos),
                     !.calls = c1]
             ELSE [st EXCEPT !.fs = touch_feeder(st.fs, feeder_id), !.calls = c1]
  IN IF c1 = failAt THEN [st EXCEPT !.ok = FALSE, !.calls = c1]
     ELSE IF c2 = failAt THEN [st1 EXCEPT !.ok = FALSE, !.calls = c2]
     ELSE [st1 EXCEPT !.fs = update_feeder_mlat(st1.fs, feeder_id, ci.ip \in mlat_ips),
                      !.calls = c2]

RECURSIVE FlushAll(_, _, _, _)
FlushAll(order, st, mlat_ips, failAt) ==
  IF order = <<>> THEN st
  ELSE FlushAll(Tail(order), FlushConn(st, Head(order), mlat_ips, failAt),
                mlat_ips, failAt)

\* list(active_connections.values()): a dict iterates in insertion order, and
\* sessions enter the registry in the order they were accepted.
RECURSIVE Ascending(_)
Ascending(S) ==
  IF S = {} THEN <<>>
  ELSE LET m == CHOOSE x \in S : \A y \in S : x <= y
       IN <<m>> \o Ascending(S \ {m})

\* One tick of stats_flusher, lines 225-269 (no await inside: one step).
\* get_readsb_aircraft_count (lines 179-188, 250) catches every exception and
\* feeds only the printed status line of lines 256-266, so it leaves no trace
\* in the state.
\* failAt = 0: no store call raises.
stats_flusher(log, failAt) ==
  LET mlat_ips == get_mlat_connected_ips(log)
      order == Ascending(active_connections)
      st == FlushAll(order,
                     [fs |-> feeders, ci |-> conn_info, sl |-> written,
                      calls |-> 0, ok |-> TRUE],
                     mlat_ips, failAt)
      active_feeder_ids == {conn_info[s].feeder_id : s \in active_connections}
      completed == st.ok /\ failAt # st.calls + 1
  IN
  /\ ~shutdown
  /\ flusher = "sleeping"
  /\ failAt \in 0..(2 * Len(order) + 1)
  /\ failAt # 0 => FaultsMade < MaxFaults
  /\ feeders' = IF completed THEN mark_inactive_feeders(st.fs, active_feeder_ids)
                ELSE st.fs
  /\ conn_info' = st.ci
  /\ written' = st.sl
  /\ flusher' = IF completed THEN "sleeping" ELSE "dead"
  /\ UNCHANGED <<total_connections, pc, fwd, active_connections, sock, net,
                 connections, shutdown, hist>>

\* the telemetry logs a tick may find
Line(ip, kind) == [ip |-> ip, kind |-> kind]
MlatLogs == {"unreadable",
             <<Line("10.0.0.1", "handshake")>>,
             <<Line("10.0.0.2", "handshake"), Line("10.0.0.1", "other")>>,
             <<Line("10.0.0.1", "handshake"), Line("10.0.0.2", "handshake")>>,
             <<Line("10.0.0.1", "handshake"), Line("10.0.0.1", "lost")>>}

Next ==
  \/ \E s \in Sessions : HandleClientReject(s)
        /\ UNCHANGED <<resolver_vars, counter_vars>>
  \/ \E s \in Sessions : \E ip \in PeerIPs(s), fail \in AcceptFails :
        HandleClient(s, ip, fail)
        /\ UNCHANGED <<resolver_vars, counter_vars>>
  \/ \E s \in Sessions : UpstreamConnected(s)
        /\ UNCHANGED <<resolver_vars, counter_vars>>
  \/ \E s \in Sessions, fail \in TeardownFails : UpstreamRefused(s, fail)
        /\ UNCHANGED <<resolver_vars, counter_vars>>
  \/ \E s \in Sessions, fail \in TeardownFails : CancelledConnecting(s, fail)
        /\ UNCHANGED <<resolver_vars, counter_vars>>
  \/ \E s \in Sessions, fail \in TeardownFails : GatherDone(s, fail)
        /\ UNCHANGED <<resolver_vars, counter_vars>>
  \/ \E s \in Sessions : \E n \in 1..Min(InboundAvail(s), READ_SIZE) : InboundRead(s, n)
        /\ UNCHANGED <<resolver_vars, counter_vars>>
  \/ \E s \in Sessions : InboundCount(s)
        /\ UNCHANGED <<resolver_vars, counter_vars>>
  \/ \E s \in Sessions : InboundError(s)
        /\ UNCHANGED <<resolver_vars, counter_vars>>
  \/ \E s \in Sessions, payload \in Payloads : ClientSend(s, payload)
        /\ UNCHANGED <<resolver_vars, counter_vars>>
  \/ \E s \in Sessions : ClientClose(s)
        /\ UNCHANGED <<resolver_vars, counter_vars>>
  \/ \E s \in Sessions : UpstreamClose(s)
        /\ UNCHANGED <<resolver_vars, counter_vars>>
  \/ shutdown_handler
        /\ UNCHANGED <<resolver_vars, counter_vars>>
  \/ \E log \in MlatLogs, failAt \in 0..(2 * MaxSessions + 1) :
        stats_flusher(log, failAt)
        /\ UNCHANGED <<resolver_vars, counter_vars>>

Spec == Init /\ [][Next]_vars

\* The proxy with traffic in both directions: sessions that register, relay
\* and end by their peers' closing, the shutdown and the ticks; no store call
\* raises and the ticks find no telemetry log.
RelayNext ==
  \/ \E s \in Sessions : \E ip \in PeerIPs(s) : HandleClient(s, ip, "none")
        /\ UNCHANGED <<resolver_vars, counter_vars>>
  \/ \E s \in Sessions : UpstreamConnected(s)
        /\ UNCHANGED <<resolver_vars, counter_vars>>
  \/ \E s \in Sessions : GatherDone(s, "none")
        /\ UNCHANGED <<resolver_vars, counter_vars>>
  \/ \E s \in Sessions : \E n \in 1..Min(InboundAvail(s), READ_SIZE) : InboundRead(s, n)
        /\ UNCHANGED <<resolver_vars, counter_vars>>
  \/ \E s \in Sessions : InboundCount(s)
        /\ UNCHANGED <<resolver_vars, counter_vars>>
  \/ \E s \in Sessions : InboundError(s)
        /\ UNCHANGED <<resolver_vars, counter_vars>>
  \/ \E s \in Sessions : \E n \in 1..Min(OutboundAvail(s), READ_SIZE) : OutboundRead(s, n)
        /\ UNCHANGED <<resolver_vars, counter_vars>>
  \/ \E s \in Sessions : OutboundDrained(s)
        /\ UNCHANGED <<resolver_vars, counter_vars>>
  \/ \E s \in Sessions : OutboundError(s)
        /\ UNCHANGED <<resolver_vars, counter_vars>>
  \/ \E s \in Sessions, payload \in Payloads : ClientSend(s, payload)
        /\ UNCHANGED <<resolver_vars, counter_vars>>
  \/ \E s \in Sessions, payload \in Payloads : UpstreamSend(s, payload)
        /\ UNCHANGED <<resolver_vars, counter_vars>>
  \/ \E s \in Sessions : ClientClose(s)
        /\ UNCHANGED <<resolver_vars, counter_vars>>
  \/ \E s \in Sessions : UpstreamClose(s)
        /\ UNCHANGED <<resolver_vars, counter_vars>>
  \/ shutdown_handler
        /\ UNCHANGED <<resolver_vars, counter_vars>>
  \/ stats_flusher("unreadable", 0)
        /\ UNCHANGED <<resolver_vars, counter_vars>>

RelaySpec == Init /\ [][RelayNext]_vars

ResolverNext ==
  \/ \E ip_str \in Addresses, nb_reply \in NetbirdReplies, ts_reply \in TailscaleReplies :
        ClassifyConnection(ip_str, nb_reply, ts_reply) /\ UNCHANGED <<proxy_vars, counter_vars>>
  \/ \E nb_reply \in NetbirdReplies, ts_reply \in TailscaleReplies :
        ResolveHostname(nb_reply, ts_reply) /\ UNCHANGED <<proxy_vars, counter_vars>>
  \/ refresh_caches /\ UNCHANGED <<proxy_vars, counter_vars>>
  \/ AdvanceClock /\ UNCHANGED <<proxy_vars, counter_vars>>

ResolverSpec == ResolverStart /\ [][ResolverNext]_vars

\* handle_client from its start to its first await (lines 86-146) together with
\* the resolver it calls: the address is classified (line 100), the hostname of
\* an overlay address is resolved (line 109), then the feeder is registered.
\* The caches keep what the two calls left even when a store call raises.
Accept(s, ip_address, nb_reply, ts_reply, fail) ==
  LET cls == classify_connection(Globals, ip_address, nb_reply, ts_reply, clock)
      conn_type == cls.result
      res == IF conn_type \in {"tailscale", "netbird"}
             THEN resolve_hostname(cls.rs, ip_address, conn_type, nb_reply, ts_reply, clock)
             ELSE [rs |-> cls.rs, result |-> "None"]
  IN /\ HandleClient(s, ip_address, fail)
     /\ Return("handle_client", ip_address, [rs |-> res.rs, result |-> conn_type])

\* the addresses the accepted connections come from
AcceptAddresses == {A_CGNAT, A_TEN, A_PUBLIC}

AcceptNext ==
  \/ \E s \in Sessions : HandleClientReject(s)
        /\ UNCHANGED <<resolver_vars, counter_vars>>
  \/ \E s \in Sessions, ip \in AcceptAddresses, fail \in AcceptFails :
      \E nb_reply \in NetbirdReplies, ts_reply \in TailscaleReplies :
        Accept(s, ip, nb_reply, ts_reply, fail) /\ UNCHANGED counter_vars
  \/ AdvanceClock /\ UNCHANGED <<proxy_vars, counter_vars>>

AcceptSpec == ResolverStart /\ [][AcceptNext]_vars

CounterNext == CountFrames /\ UNCHANGED <<proxy_vars, resolver_vars>>

\* the proxy and the resolver stand still; the buffer is any encoded frame list
CounterInit == ProxyInit /\ ResolverInit(DefaultConfig, 0) /\ CounterStart

CounterSpec == CounterInit /\ [][CounterNext]_vars

ReadNext ==
  \E n \in 1..MaxBuf : ForwardRead(n) /\ UNCHANGED <<proxy_vars, resolver_vars>>

\* the proxy and the resolver stand still; the stream is any byte sequence
ReadInit == ProxyInit /\ ResolverInit(DefaultConfig, 0) /\ ReadStart

ReadSpec == ReadInit /\ [][ReadNext]_vars

\* ===================================================================== claims
ConnRow(s) == connections[conn_info[s].connection_id]
FeederOf(s) == conn_info[s].feeder_id

\* a tick of stats_flusher that ran to its end (no store call raised)
TickCompleted(log) == flusher = "sleeping" /\ pc' = pc /\ stats_flusher(log, 0)

\* C1 - counter conservation: once a session's teardown has completed, the sums
\* of the byte, message and position deltas that update_feeder_stats was given
\* for it (by ticks and by the teardown) equal its final running totals.
C1_Conservation ==
  \A s \in Sessions :
    pc[s] = "done" =>
      /\ written[s].bytes = conn_info[s].bytes
      /\ written[s].messages = conn_info[s].messages
      /\ written[s].positions = conn_info[s].positions

\* a finished session that a tick flushed in part and the teardown flushed the rest of
C1_Witness ==
  \E s \in Sessions :
    /\ pc[s] = "done"
    /\ written[s].tick_calls >= 1 /\ written[s].teardown_calls = 1
    /\ conn_info[s].bytes = 2

\* C3 - final flush on a clean disconnect: the client sent data and closed, the
\* inbound loop read to the EOF and no tick flushed anything; then the finished
\* session has one disconnect record carrying the bytes the client sent and one
\* update_feeder_stats call carrying the full totals.
C3_FinalFlush ==
  \A s \in Sessions :
    (/\ pc[s] = "done"
     /\ fwd[s].inbound = "eof"
     /\ Len(net[s].client_sent) > 0
     /\ written[s].tick_calls = 0)
    =>
    /\ ConnRow(s).disconnects = 1
    /\ ConnRow(s).bytes_transferred = Len(net[s].client_sent)
    /\ written[s].teardown_calls = 1
    /\ written[s].bytes = conn_info[s].bytes
    /\ written[s].messages = conn_info[s].messages
    /\ written[s].positions = conn_info[s].positions
    /\ conn_info[s].bytes = Len(net[s].client_sent)

C3_Witness ==
  \E s \in Sessions :
    /\ pc[s] = "done" /\ fwd[s].inbound = "eof" /\ written[s].tick_calls = 0
    /\ net[s].client_sent = <<26, 50>>
    /\ conn_info[s].messages = 1
    /\ ConnRow(s).bytes_transferred = 2

\* C4 - after a tick that ran to its end, every session of the registry has
\* each flushed watermark equal to the running total the tick read.
C4_TickFlushesAll ==
  [][\A log \in MlatLogs :
       TickCompleted(log) =>
         \A s \in active_connections :
           /\ conn_info'[s].bytes_flushed = conn_info[s].bytes
           /\ conn_info'[s].messages_flushed = conn_info[s].messages
           /\ conn_info'[s].positions_flushed = conn_info[s].positions
           /\ conn_info'[s].bytes = conn_info[s].bytes
           /\ conn_info'[s].messages = conn_info[s].messages
           /\ conn_info'[s].positions = conn_info[s].positions]_vars

\* two live sessions, one of them with counted data, all of it flushed by a tick
C4_Witness ==
  /\ Cardinality(active_connections) = 2
  /\ flusher = "sleeping"
  /\ \E s \in active_connections :
       /\ conn_info[s].positions = 1
       /\ written[s].tick_calls = 1
       /\ conn_info[s].bytes_flushed = conn_info[s].bytes
       /\ conn_info[s].messages_flushed = conn_info[s].messages
       /\ conn_info[s].positions_flushed = conn_info[s].positions

\* C2 - session termination on EOF: once a copy loop of a relaying session has
\* read EOF, the session eventually enters its teardown, whatever the other
\* side does.  Only the program's own steps are fair; the peers may stay silent.
SessionStep(s) ==
  /\ UNCHANGED <<resolver_vars, counter_vars>>
  /\ \/ \E n \in 1..Min(InboundAvail(s), READ_SIZE) : InboundRead(s, n)
     \/ InboundCount(s)
     \/ InboundError(s)
     \/ \E fail \in TeardownFails : GatherDone(s, fail)
     \/ \E fail \in TeardownFails : CancelledConnecting(s, fail)

FairSpec == Spec /\ \A s \in Sessions : WF_vars(SessionStep(s))

C2_EofReachesTeardown ==
  \A s \in Sessions :
    (pc[s] = "relay" /\ (fwd[s].inbound = "eof" \/ fwd[s].outbound = "eof"))
      ~> (pc[s] \in {"done", "crashed"})

\* C5 - stale marking, as stated: after a tick that ran to its end, every feeder
\* with a record but no session in the registry snapshot is stale, whatever its
\* status was before.
C5_StaleWhateverBefore ==
  [][\A log \in MlatLogs :
       TickCompleted(log) =>
         \A f \in DOMAIN feeders :
           f \notin {FeederOf(s) : s \in active_connections}
             => feeders'[f].status = "stale"]_vars

\* C5 - stale marking, as the code does it: after a tick that ran to its end, a
\* feeder with no session in the registry snapshot is stale if it was active
\* before the tick and keeps its status (offline, stale) otherwise.
C5_StaleIfActive ==
  [][\A log \in MlatLogs :
       TickCompleted(log) =>
         \A f \in DOMAIN feeders :
           f \notin {FeederOf(s) : s \in active_connections}
             => feeders'[f].status =
                  IF feeders[f].status = "active" THEN "stale" ELSE feeders[f].status]_vars

\* a tick has made a session-less active feeder stale and left an offline one offline
C5_Witness ==
  /\ flusher = "sleeping"
  /\ \E f, g \in DOMAIN feeders :
       /\ {f, g} \cap {FeederOf(s) : s \in active_connections} = {}
       /\ feeders[f].status = "stale"
       /\ feeders[g].status = "offline"

\* C6 - idle-but-open sessions stay alive: after a tick that ran to its end, the
\* feeder of every session of the registry is active, with or without new data.
C6_LiveFeederActive ==
  [][\A log \in MlatLogs :
       TickCompleted(log) =>
         \A s \in active_connections : feeders'[FeederOf(s)].status = "active"]_vars

\* a live session that never received data and whose feeder a later session
\* from the same address has set offline by disconnecting: only a tick's touch
\* makes the feeder active again
C6_Witness ==
  \E s, r \in Sessions :
    /\ s < r
    /\ s \in active_connections /\ pc[s] = "relay"
    /\ conn_info[s].bytes = 0 /\ written[s].tick_calls = 0
    /\ pc[r] = "done" /\ FeederOf(r) = FeederOf(s)
    /\ feeders[FeederOf(s)].status = "active"

\* C7 - after a tick that ran to its end, the overlay flag of the feeder of each
\* session of the registry is 1 exactly if the session's address is in the
\* tick's telemetry snapshot; an unreadable telemetry log gives 0 for all of
\* them and the tick still flushes the counters.
C7_MlatFlag ==
  [][\A log \in MlatLogs :
       TickCompleted(log) =>
         \A s \in active_connections :
           /\ (feeders'[FeederOf(s)].mlat_enabled = 1)
                <=> (conn_info[s].ip \in get_mlat_connected_ips(log))
           /\ feeders'[FeederOf(s)].mlat_enabled \in {0, 1}
           /\ log = "unreadable" =>
                /\ feeders'[FeederOf(s)].mlat_enabled = 0
                /\ conn_info'[s].bytes_flushed = conn_info[s].bytes]_vars

\* two live sessions from different addresses, one feeder flagged, the other not
C7_Witness ==
  \E s, r \in active_connections :
    /\ conn_info[s].ip # conn_info[r].ip
    /\ feeders[FeederOf(s)].mlat_enabled = 1
    /\ feeders[FeederOf(r)].mlat_enabled = 0
    /\ feeders[FeederOf(r)].status = "active"
    /\ flusher = "sleeping"

C9_UpstreamRefused ==
  \A s \in Sessions :
    (pc[s] = "done" /\ hist[s].cause = "refused") =>
      /\ hist[s].opens = 1
      /\ fwd[s].inbound = "none" /\ fwd[s].outbound = "none"
      /\ conn_info[s].bytes = 0 /\ written[s] = NoneWritten
      /\ ConnRow(s).disconnects = 1
      /\ ConnRow(s).bytes_transferred = 0
      /\ s \notin active_connections
      /\ sock[s].writer = "closed" /\ sock[s].readsb_writer = "none"

\* a refused session after its teardown, its feeder set offline
C9_Witness ==
  \E s \in Sessions :
    /\ pc[s] = "done" /\ hist[s].cause = "refused"
    /\ ConnRow(s).disconnects = 1
    /\ feeders[FeederOf(s)].status = "offline"

\* C10 - the reconciler runs until cancelled: whatever fails during a tick, the
\* stats_flusher task is alive afterwards (sleeping until the next tick) unless
\* the shutdown has cancelled it.
C10_RunsUntilCancelled ==
  /\ flusher \in {"sleeping", "cancelled"}
  /\ flusher = "cancelled" => shutdown

\* a tick of stats_flusher in which the store call number failAt raises
TickFailed(log, failAt) ==
  flusher = "sleeping" /\ pc' = pc /\ failAt > 0 /\ stats_flusher(log, failAt)

\* the session whose pass through the loop body makes the store call number c
\* (each pass makes two: the flush or touch, then the overlay flag)
SessionOfCall(c) == Ascending(active_connections)[(c + 1) \div 2]

\* C11 - per-feeder independence within a tick: when a store write for one
\* session's feeder raises during a tick, every other session of the registry
\* snapshot is still flushed (its watermarks reach the totals) or touched (its
\* feeder is active) in that same tick.
C11_OthersStillFlushed ==
  [][\A log \in MlatLogs :
       \A failAt \in 1..(2 * Cardinality(active_connections)) :
         TickFailed(log, failAt) =>
           \A s \in active_connections :
             FeederOf(s) # FeederOf(SessionOfCall(failAt)) =>
             /\ conn_info'[s].bytes_flushed = conn_info[s].bytes
             /\ conn_info'[s].messages_flushed = conn_info[s].messages
             /\ conn_info'[s].positions_flushed = conn_info[s].positions
             /\ feeders'[FeederOf(s)].status = "active"]_vars

\* C12 - a store write failure never aborts a session's cleanup: a session in
\* which a store call raised (upsert_feeder, log_connection, the final
\* update_feeder_stats or log_disconnection) is out of the registry, its client
\* socket is closed and its upstream socket, if one was opened, is closed.
C12_CleanupSurvivesStoreFault ==
  \A s \in Sessions :
    pc[s] = "crashed" =>
      /\ s \notin active_connections
      /\ sock[s].writer = "closed"
      /\ sock[s].readsb_writer \in {"none", "closed"}

\* ------------------------------------------------- claims on the resolver
\* The ranges written out: the first and the last address of each CIDR block.
FirstLast(cidr) ==
  IF cidr = CIDR_100_64 THEN <<(100 * 256 + 64) * 65536, (100 * 256 + 127) * 65536 + 65535>>
  ELSE <<(10 * 256 + 10) * 65536, (10 * 256 + 10) * 65536 + 65535>>

DottedQuad(ip_str) == Len(ip_str) = 4 /\ \A i \in 1..4 : ip_str[i] \in 0..255

InCidr(ip_str, cidr) ==
  /\ DottedQuad(ip_str)
  /\ LET v == ip_str[1] * 16777216 + ip_str[2] * 65536 + ip_str[3] * 256 + ip_str[4]
     IN FirstLast(cidr)[1] <= v /\ v <= FirstLast(cidr)[2]

InNetbirdRange(ip_str) == config.NETBIRD_ENABLED /\ InCidr(ip_str, config.NETBIRD_CIDR)
InTailscaleRange(ip_str) == config.TAILSCALE_ENABLED /\ InCidr(ip_str, config.TAILSCALE_CIDR)

\* C13 - when classify_connection has returned for an address inside the
\* NetBird range and the NetBird cache (after the call's lazy refresh) holds a
\* record for it, the result is netbird, whatever the Tailscale range and
\* cache say.
C13_ExplicitNetbird ==
  (/\ ret.fn = "classify"
   /\ InNetbirdRange(ret.ip)
   /\ ret.ip \in DOMAIN netbird_peers)
  => ret.result = "netbird"

\* the address is in both ranges and in both caches; the call refreshed the
\* NetBird cache
C13_Witness ==
  /\ ret.fn = "classify" /\ ret.result = "netbird" /\ ret.nref = 1
  /\ InNetbirdRange(ret.ip) /\ InTailscaleRange(ret.ip)
  /\ ret.ip \in DOMAIN netbird_peers /\ ret.ip \in DOMAIN tailscale_peers

\* C14 - explicit match outranks range-only fallback: for an address inside
\* both ranges with no NetBird record but a Tailscale record, the result is
\* tailscale.
C14_ExplicitTailscale ==
  (/\ ret.fn = "classify"
   /\ InNetbirdRange(ret.ip) /\ InTailscaleRange(ret.ip)
   /\ ret.ip \notin DOMAIN netbird_peers
   /\ ret.ip \in DOMAIN tailscale_peers)
  => ret.result = "tailscale"

\* such a call, with a NetBird cache that holds records of other addresses
C14_Witness ==
  /\ ret.fn = "classify" /\ ret.result = "tailscale"
  /\ InNetbirdRange(ret.ip) /\ InTailscaleRange(ret.ip)
  /\ config.NETBIRD_API_TOKEN
  /\ netbird_peers # NoPeers /\ ret.ip \notin DOMAIN netbird_peers
  /\ ret.ip \in DOMAIN tailscale_peers

\* C15 - primary-network tie-break: for an address inside both ranges with no
\* record in either cache, the result is netbird, also when the refreshes
\* failed and both caches are empty.
C15_TieBreak ==
  (/\ ret.fn = "classify"
   /\ InNetbirdRange(ret.ip) /\ InTailscaleRange(ret.ip)
   /\ ret.ip \notin DOMAIN netbird_peers
   /\ ret.ip \notin DOMAIN tailscale_peers)
  => ret.result = "netbird"

\* the call tried to refresh both caches, both refreshes failed
C15_Witness ==
  /\ ret.fn = "classify" /\ ret.result = "netbird"
  /\ InNetbirdRange(ret.ip) /\ InTailscaleRange(ret.ip)
  /\ ret.nref = 1 /\ ret.tref = 1
  /\ netbird_peers = NoPeers /\ tailscale_peers = NoPeers

\* C16 - an address outside both ranges, or a string that is no address, is
\* public, whatever the caches hold.
C16_OutsideIsPublic ==
  (/\ ret.fn = "classify"
   /\ ~InNetbirdRange(ret.ip) /\ ~InTailscaleRange(ret.ip))
  => (ret.result = "public" /\ ret.nref = 0 /\ ret.tref = 0)

\* a public address that has a record in both caches, classified public
C16_Witness ==
  /\ ret.fn = "classify" /\ ret.result = "public"
  /\ ret.ip = A_PUBLIC
  /\ A_PUBLIC \in DOMAIN netbird_peers \cap DOMAIN tailscale_peers

\* a step in which classify_connection ran
ClassifyStep == ret'.fn = "classify" /\ clock' = clock

\* the caches a classify_connection call for ret'.ip consults
ConsultsNetbird == InNetbirdRange(ret'.ip) /\ config.NETBIRD_API_TOKEN
ConsultsTailscale ==
  InTailscaleRange(ret'.ip)
  /\ ~(InNetbirdRange(ret'.ip) /\ ret'.ip \in DOMAIN netbird_peers')

WellFormed(reply) == reply.kind = "ok" /\ \A i \in DOMAIN reply.peers : reply.peers[i].dict
Names(p, key) == key # <<>> /\ (p.ip = key \/ \E j \in DOMAIN p.ips : p.ips[j] = key)
MappingOf(reply) ==
  LET keys == {key \in Addresses : \E i \in DOMAIN reply.peers : Names(reply.peers[i], key)}
      last(key) == CHOOSE i \in DOMAIN reply.peers :
                     /\ Names(reply.peers[i], key)
                     /\ \A j \in DOMAIN reply.peers : Names(reply.peers[j], key) => j <= i
  IN [key \in keys |-> reply.peers[last(key)]]

\* C18 - atomic cache refresh: a classify_connection or resolve_hostname call
\* leaves each cache either with the complete mapping of a well-formed reply
\* and the timestamp of the call, or with the mapping and the timestamp it had;
\* the call returns in either case.
C18_AtomicRefresh ==
  [][(ret'.fn \in {"classify", "resolve"} /\ clock' = clock) =>
       /\ \/ /\ netbird_peers' = netbird_peers
             /\ netbird_cache_ts' = netbird_cache_ts
          \/ /\ ret'.nref = 1
             /\ netbird_cache_ts' = clock
             /\ \E reply \in NetbirdReplies :
                  WellFormed(reply) /\ netbird_peers' = MappingOf(reply)
       /\ \/ /\ tailscale_peers' = tailscale_peers
             /\ tailscale_cache_ts' = tailscale_cache_ts
          \/ /\ ret'.tref = 1
             /\ tailscale_cache_ts' = clock
             /\ \E reply \in TailscaleReplies :
                  WellFormed(reply) /\ tailscale_peers' = MappingOf(reply)]_vars

\* after a call whose refreshes of both caches failed: both caches still hold
\* the mappings and the timestamps of earlier refreshes
C18_Witness ==
  /\ ret.fn = "classify" /\ ret.nref = 1 /\ ret.tref = 1
  /\ netbird_peers # NoPeers /\ tailscale_peers # NoPeers
  /\ netbird_cache_ts > 0 /\ clock - netbird_cache_ts > _CACHE_TTL
  /\ tailscale_cache_ts > 0 /\ clock - tailscale_cache_ts > _CACHE_TTL

\* C19 - forced refresh: the first classify_connection call after
\* refresh_caches makes a refresh call for every cache it consults, whatever
\* the clock shows.
C19_ForcedRefresh ==
  [][(ret.fn = "refresh_caches" /\ ClassifyStep) =>
       /\ ConsultsNetbird => ret'.nref = 1
       /\ ConsultsTailscale => ret'.tref = 1]_vars

\* ------------------------------------------- claims on count_beast_frames
\* C20 - frame counts: for a buffer of N well-formed frames count_beast_frames
\* returns <<N, 0>> when all frames have a short type (0x31, 0x32, 0x34) and
\* <<N, N>> when all have a long type (0x33, 0x35).
C20_FrameCounts ==
  frame_counts # NotCounted =>
    /\ (\A i \in DOMAIN frames : frames[i].type \in {49, 50, 52})
         => frame_counts = <<Len(frames), 0>>
    /\ (\A i \in DOMAIN frames : frames[i].type \in {51, 53})
         => frame_counts = <<Len(frames), Len(frames)>>

\* two long frames of different types whose payloads hold escape bytes, one of
\* them followed by a byte that is a type byte
C20_Witness ==
  /\ frame_counts = <<2, 2>>
  /\ Len(frames) = 2
  /\ frames[1].type = 53 /\ frames[1].payload = <<26, 49>>
  /\ frames[2].type = 51 /\ frames[2].payload = <<51, 26, 26>>
\* positions of the escape bytes of a buffer
EscapesOf(data) == {i \in DOMAIN data : data[i] = BEAST_ESCAPE}

\* the stream arrived in one read / in exactly two reads
OneRead == frame_pos = Len(frame_data) /\ Len(frame_reads) = 1
TwoReads == frame_pos = Len(frame_data) /\ Len(frame_reads) = 2

\* C21 - an escaped literal is never a frame marker: a buffer whose only escape
\* bytes are one adjacent pair counts as (0, 0), whatever surrounds the pair;
\* this covers the buffer that is only the pair and a type byte right after it.
C21_EscapedLiteral ==
  OneRead =>
    \A i \in DOMAIN frame_data :
      EscapesOf(frame_data) = {i, i + 1} => frame_reads[1] = <<0, 0>>

\* the pair followed by a short type byte and by a long one, read at once
C21_Witness ==
  /\ OneRead
  /\ frame_data = <<BEAST_ESCAPE, BEAST_ESCAPE, 50, 51>>
  /\ frame_reads[1] = <<0, 0>>

\* C28 - read boundaries only lose frames: when a stream arrives in two reads,
\* the message counts of the two chunks sum to at most the count of the whole
\* stream, and so do the position counts.
C28_SplitNeverAdds ==
  TwoReads =>
    /\ frame_reads[1][1] + frame_reads[2][1] <= count_beast_frames(frame_data)[1]
    /\ frame_reads[1][2] + frame_reads[2][2] <= count_beast_frames(frame_data)[2]

\* C22 - point-in-time snapshot: a tick contains no await, so the sessions it
\* flushes or touches and the feeder ids it exempts from stale marking come
\* from one registry state.  After a tick that ran to its end the registry is
\* as it was, the active feeders are exactly the feeders of its sessions (no
\* feeder with a live session is stale), and a session outside the registry
\* (torn down, or not yet registered) has been given nothing.
C22_Snapshot ==
  [][\A log \in MlatLogs :
       TickCompleted(log) =>
         /\ active_connections' = active_connections
         /\ \A f \in DOMAIN feeders :
              (feeders'[f].status = "active")
                <=> (f \in {FeederOf(s) : s \in active_connections})
         /\ \A s \in Sessions \ active_connections :
              conn_info'[s] = conn_info[s] /\ written'[s] = written[s]]_vars

\* one session is torn down and no tick ever flushed it; another session from
\* the same address is live and was flushed by a tick, and their feeder, which
\* the teardown had set offline, is active: a tick ran to its end while the one
\* was out of the registry and the other in it
C22_Witness ==
  \E s, r \in Sessions :
    /\ pc[s] = "done" /\ s \notin active_connections
    /\ r \in active_connections /\ FeederOf(r) = FeederOf(s)
    /\ feeders[FeederOf(r)].status = "active"
    /\ flusher = "sleeping"
    /\ written[s].tick_calls = 0
    /\ written[r].tick_calls = 1

\* C23 - rejection without peer address: the handler of a connection whose
\* peer address is unknown closes the client socket and ends; the peer caches
\* and their timestamps, the store, and the registry are as before, and no
\* upstream connection was attempted.
C23_RejectLeavesNoTrace ==
  [][\A s \in Sessions :
       (pc[s] = "idle" /\ pc'[s] = "rejected") =>
         /\ sock'[s].writer = "closed" /\ sock'[s].readsb_writer = "none"
         /\ hist'[s].opens = 0
         /\ fwd'[s].inbound = "none" /\ fwd'[s].outbound = "none"
         /\ feeders' = feeders /\ connections' = connections
         /\ active_connections' = active_connections
         /\ netbird_peers' = netbird_peers /\ netbird_cache_ts' = netbird_cache_ts
         /\ tailscale_peers' = tailscale_peers
         /\ tailscale_cache_ts' = tailscale_cache_ts]_vars

\* a connection was rejected after an accepted one had filled a peer cache and
\* the cache has expired since: a classification would have refreshed it
C23_Witness ==
  /\ pc[1] = "connecting" /\ pc[2] = "rejected"
  /\ sock[2].writer = "closed"
  /\ tailscale_peers # NoPeers
  /\ clock - tailscale_cache_ts > _CACHE_TTL

\* C24 - transparent relay: at every point of a session the bytes written to
\* the upstream are the bytes read from the client, a prefix of what the client
\* sent, and the bytes written to the client are the bytes read from the
\* upstream, a prefix of what the upstream sent; the chunk held for counting
\* is the chunk that was written.
C24_TransparentRelay ==
  \A s \in Sessions :
    /\ net[s].inbound_read <= Len(net[s].client_sent)
    /\ net[s].to_upstream = SubSeq(net[s].client_sent, 1, net[s].inbound_read)
    /\ net[s].outbound_read <= Len(net[s].upstream_sent)
    /\ net[s].to_client = SubSeq(net[s].upstream_sent, 1, net[s].outbound_read)
    /\ fwd[s].inbound = "drain" =>
         fwd[s].chunk = SubSeq(net[s].to_upstream,
                               Len(net[s].to_upstream) - Len(fwd[s].chunk) + 1,
                               Len(net[s].to_upstream))

\* a session relayed a long frame to the upstream, which counted as a
\* position, and a short frame to the client
C24_Witness ==
  \E s \in Sessions :
    /\ net[s].to_upstream = <<26, 51>> /\ conn_info[s].positions = 1
    /\ net[s].to_client = <<26, 50>>
    /\ fwd[s].inbound = "read" /\ fwd[s].outbound = "read"

\* the fields of conn_info that only the inbound loop may write
Totals(ci) == <<ci.bytes, ci.messages, ci.positions, ci.last_data>>

\* C25 - single-writer counters: a step that changes a session's running
\* totals or its last-data stamp is that session's own inbound loop counting a
\* chunk (lines 73-79); outbound traffic, other sessions' loops and the ticks
\* leave them as they are, and a tick changes nothing of a session but its
\* flushed watermarks.
C25_SingleWriter ==
  [][/\ \A s \in Sessions :
          Totals(conn_info'[s]) # Totals(conn_info[s]) =>
            /\ fwd[s].inbound = "drain"
            /\ InboundCount(s)
     /\ (flusher = "sleeping" /\ pc' = pc /\ stats_flusher("unreadable", 0)) =>
          \A s \in Sessions :
            conn_info'[s] =
              [conn_info[s] EXCEPT !.bytes_flushed = conn_info'[s].bytes_flushed,
                                   !.messages_flushed = conn_info'[s].messages_flushed,
                                   !.positions_flushed = conn_info'[s].positions_flushed]
    ]_vars

\* two live sessions: one has counted a chunk and a tick has flushed it, the
\* other has relayed outbound traffic and counted nothing
C25_Witness ==
  \E s, r \in active_connections :
    /\ conn_info[s].last_data = 1 /\ conn_info[s].bytes = 2
    /\ conn_info[s].bytes_flushed = 2
    /\ net[r].to_client # <<>> /\ Totals(conn_info[r]) = <<0, 0, 0, 0>>

\* C26 - counter monotonicity and watermark bound: no step lowers a session's
\* running totals or flushed watermarks, and in the state it leads to each
\* watermark lies between 0 and its running total.
C26_MonotoneCounters ==
  [][\A s \in Sessions :
       /\ conn_info'[s].bytes >= conn_info[s].bytes
       /\ conn_info'[s].messages >= conn_info[s].messages
       /\ conn_info'[s].positions >= conn_info[s].positions
       /\ conn_info'[s].bytes_flushed >= conn_info[s].bytes_flushed
       /\ conn_info'[s].messages_flushed >= conn_info[s].messages_flushed
       /\ conn_info'[s].positions_flushed >= conn_info[s].positions_flushed
       /\ 0 <= conn_info'[s].bytes_flushed
       /\ conn_info'[s].bytes_flushed <= conn_info'[s].bytes
       /\ 0 <= conn_info'[s].messages_flushed
       /\ conn_info'[s].messages_flushed <= conn_info'[s].messages
       /\ 0 <= conn_info'[s].positions_flushed
       /\ conn_info'[s].positions_flushed <= conn_info'[s].positions]_vars

\* a tick flushed the first byte of a frame, then the second byte was counted:
\* the byte watermark lies strictly between 0 and the total
C26_Witness ==
  \E s \in Sessions :
    /\ conn_info[s].bytes = 2 /\ conn_info[s].bytes_flushed = 1
    /\ written[s].tick_calls = 1

\* sessions that have completed registration and whose teardown has not run
Registered == {s \in Sessions : pc[s] \in {"connecting", "relay"}}

\* C27 - registry membership: in every state the registry holds exactly the
\* sessions that have registered and have not run their teardown; so when no
\* such session is left the registry is empty.
C27_RegistryMembership ==
  /\ active_connections = Registered
  /\ Registered = {} => active_connections = {}

\* feeders that have a session in the registry
LiveFeeders == {FeederOf(s) : s \in active_connections}

\* C29 - active implies a live session: in every state between handler steps a
\* feeder whose status is active has a session in the registry.
C29_ActiveHasSession ==
  \A f \in DOMAIN feeders : feeders[f].status = "active" => f \in LiveFeeders

\* C30 - a feeder with a session in the registry is never offline, also when
\* another session from the same address has disconnected.
C30_LiveNeverOffline ==
  \A f \in DOMAIN feeders : f \in LiveFeeders => feeders[f].status # "offline"
====
